---------------------------- MODULE Spec2Model ----------------------------
(***************************************************************************)
(* Model of pyhdfeos/grids.py: the subscript operations of a grid field    *)
(* (_GridVariable.__getitem__) and of a grid (_Grid.__getitem__), and the  *)
(* semi-major / semi-minor decode of _Grid.__str__.                        *)
(*                                                                         *)
(* A Python subscript is modelled as a record:                             *)
(*   PyInt(i)        a bare integer                                        *)
(*   Ellipsis        the ellipsis marker                                   *)
(*   slice(a, b, c)  a slice; each field is None or Some(integer)          *)
(*   PyTuple(items)  a tuple of the above                                  *)
(* Axis numbers are 0-based as in the source; TLA+ sequences are 1-based,  *)
(* so axis a is position a + 1.                                            *)
(***************************************************************************)
EXTENDS Integers, Sequences, FiniteSets, TLC

VARIABLES op, shape, index, projcode, projparms, pc, result

\* the subscript of the innermost __getitem__ frame and the number of frames
VARIABLES cur, frames

\* the life of a GridFile: the outcome of each primitive at open time, the
\* GridFile object, the references the program holds, and the primitive
\* calls made so far
VARIABLES hformat, attachFails, gdf, fileRefs, gridRefs, inDict, scope, hecalls

normVars == <<cur, frames>>

lifeVars == <<hformat, attachFails, gdf, fileRefs, gridRefs, inDict, scope, hecalls>>

vars == <<op, shape, index, projcode, projparms, pc, result, normVars, lifeVars>>

---------------------------------------------------------------------------
(* Bounds of the input space.                                              *)

\* largest number of axes of a field
MaxRank == 3
\* largest length of an axis
MaxDim == 2
\* largest integer used as a bare index or as a slice start / stop
MaxIdx == 2
\* number of grids in the file
MaxGrids == 2
\* largest number of references the program holds to one object
MaxRefs == 2

---------------------------------------------------------------------------
(* Python values.                                                          *)

None == <<>>
Some(v) == <<v>>
IsNone(o) == o = <<>>
Val(o) == o[1]

PyInt(i) == [t |-> "int", v |-> i]
Ellipsis == [t |-> "ellipsis"]
slice(a, b, c) == [t |-> "slice", start |-> a, stop |-> b, step |-> c]
PyTuple(items) == [t |-> "tuple", items |-> items]

isinstance_int(x) == x.t = "int"
is_Ellipsis(x) == x.t = "ellipsis"
isinstance_slice(x) == x.t = "slice"
isinstance_tuple(x) == x.t = "tuple"

\* index.start is None and index.stop is None and index.step is None
AllNone(s) == IsNone(s.start) /\ IsNone(s.stop) /\ IsNone(s.step)

\* any(pred(x) for x in index)
AnyEllipsis(items) == \E j \in 1..Len(items) : is_Ellipsis(items[j])
AnyInt(items) == \E j \in 1..Len(items) : isinstance_int(items[j])

Min(S) == CHOOSE x \in S : \A y \in S : x <= y

\* np.floor(a / b) for integers a and b, b # 0
FloorDiv(a, b) == IF b > 0 THEN a \div b ELSE (-a) \div (-b)

---------------------------------------------------------------------------
(* Arrays.  An array returned by a read is a hyper-rectangular selection   *)
(* of the stored field: axes[k].at lists the stored indices selected along *)
(* the k-th remaining axis, axes[k].src is the stored axis it came from,   *)
(* and pinned holds <<axis, stored index>> for every axis that was removed.*)

NoData == [axes |-> <<>>, pinned |-> {<<-1, -1>>}]

RemoveAt(s, p) == [k \in 1..(Len(s) - 1) |-> IF k < p THEN s[k] ELSE s[k + 1]]

\* np.squeeze(data, axis): legal only on an existing axis of length one
CanSqueeze(data, axis) ==
    /\ axis + 1 \in 1..Len(data.axes)
    /\ Len(data.axes[axis + 1].at) = 1

squeeze(data, axis) ==
    [axes |-> RemoveAt(data.axes, axis + 1),
     pinned |-> data.pinned \cup {<<data.axes[axis + 1].src, data.axes[axis + 1].at[1]>>}]

---------------------------------------------------------------------------
(* The storage read primitive, he.gdreadfield(gridid, fieldname, start,    *)
(* stride, edge): it fails with a range error when                         *)
(* start + stride * (edge - 1) reaches the shape on some axis, and         *)
(* otherwise returns the selected cells.                                   *)

ReadInRange(shp, plan) ==
    \A j \in 1..Len(shp) :
        plan.start[j] + plan.stride[j] * (plan.edge[j] - 1) < shp[j]

gdreadfield(shp, plan) ==
    [axes |-> [j \in 1..Len(shp) |->
                 [src |-> j - 1,
                  at |-> [k \in 1..plan.edge[j] |->
                            plan.start[j] + (k - 1) * plan.stride[j]]]],
     pinned |-> {}]

---------------------------------------------------------------------------
(* _GridVariable.__getitem__                                               *)

\* start = np.zeros(ndims); stride = np.ones(ndims); edge = list(self.shape)
DefaultPlan(shp) ==
    [start |-> [j \in 1..Len(shp) |-> 0],
     stride |-> [j \in 1..Len(shp) |-> 1],
     edge |-> shp]

Raise(err) == [status |-> err, calls |-> <<>>, data |-> NoData, depth |-> 1]

\* return self._he.gdreadfield(self.gridid, self.fieldname, start, stride, edge)
ReadField(shp, plan) ==
    IF ReadInRange(shp, plan)
    THEN [status |-> "ok", calls |-> <<plan>>,
          data |-> gdreadfield(shp, plan), depth |-> 1]
    ELSE [status |-> "ReadError", calls |-> <<plan>>, data |-> NoData, depth |-> 1]

\* the isinstance(index, int) branch: retrieve a row
RowPlan(shp, i) ==
    [start |-> [j \in 1..Len(shp) |-> IF j = 1 THEN i ELSE 0],
     stride |-> [j \in 1..Len(shp) |-> 1],
     edge |-> [j \in 1..Len(shp) |-> IF j = 1 THEN 1 ELSE shp[j]]]

\* data = np.squeeze(data, axis); return data
SqueezeResult(r, axis) ==
    IF r.status # "ok" THEN r
    ELSE IF CanSqueeze(r.data, axis)
         THEN [r EXCEPT !.data = squeeze(r.data, axis)]
         ELSE [r EXCEPT !.status = "ValueError", !.data = NoData]

\* position (0-based) of the first Ellipsis of a tuple
FirstEllipsis(items) == Min({j \in 1..Len(items) : is_Ellipsis(items[j])}) - 1

\* variant: the last integer of the tuple is taken instead of the first
LastInt(items) ==
    CHOOSE j \in 0..(Len(items) - 1) :
        /\ isinstance_int(items[j + 1])
        /\ \A k \in (j + 2)..Len(items) : ~isinstance_int(items[k])

\* idx = next(filterfalse(...))[0]: position (0-based) of the first integer
FirstInt(items) == Min({j \in 1..Len(items) : isinstance_int(items[j])}) - 1

\* "Remove the first ellipsis we find": it becomes slice(0, self.shape[j])
ReplaceEllipsis(shp, items) ==
    [items EXCEPT ![FirstEllipsis(items) + 1] =
        slice(Some(0), Some(shp[FirstEllipsis(items) + 1]), None)]

\* lst[idx] = slice(index[idx], index[idx] + 1)
ReplaceInt(items) ==
    [items EXCEPT ![FirstInt(items) + 1] =
        slice(Some(items[FirstInt(items) + 1].v),
              Some(items[FirstInt(items) + 1].v + 1), None)]

\* the workhorse loop over a tuple of slices, lines 115-126
PlanStart(shp, items, j) ==
    IF j <= Len(items) /\ ~IsNone(items[j].start) THEN Val(items[j].start) ELSE 0

PlanStride(shp, items, j) ==
    IF j <= Len(items) /\ ~IsNone(items[j].step) THEN Val(items[j].step) ELSE 1

PlanEdge(shp, items, j) ==
    IF j > Len(items) THEN shp[j]
    ELSE IF IsNone(items[j].stop)
         THEN FloorDiv(shp[j] - PlanStart(shp, items, j), PlanStride(shp, items, j))
         ELSE FloorDiv(Val(items[j].stop) - PlanStart(shp, items, j),
                       PlanStride(shp, items, j))

SlicePlan(shp, items) ==
    [start |-> [j \in 1..Len(shp) |-> PlanStart(shp, items, j)],
     stride |-> [j \in 1..Len(shp) |-> PlanStride(shp, items, j)],
     edge |-> [j \in 1..Len(shp) |-> PlanEdge(shp, items, j)]]

Deeper(r) == [r EXCEPT !.depth = r.depth + 1]

RECURSIVE GridVariable_getitem(_, _)
GridVariable_getitem(shp, idx) ==
    IF Len(shp) < 2
    THEN \* nrows = self.shape[0]; ncols = self.shape[1]
         Raise("IndexError")
    ELSE IF isinstance_int(idx)
    THEN SqueezeResult(ReadField(shp, RowPlan(shp, idx.v)), 0)
    ELSE IF is_Ellipsis(idx)
    THEN Deeper(GridVariable_getitem(shp, slice(None, None, None)))
    ELSE IF isinstance_slice(idx)
    THEN IF AllNone(idx)
         THEN ReadField(shp, DefaultPlan(shp))
         ELSE Raise("RuntimeError")
    ELSE IF AnyEllipsis(idx.items)
    THEN IF FirstEllipsis(idx.items) >= Len(shp)
         THEN \* self.shape[j] with j past the last axis
              Raise("IndexError")
         ELSE Deeper(GridVariable_getitem(shp,
                        PyTuple(ReplaceEllipsis(shp, idx.items))))
    ELSE IF AnyInt(idx.items)
    THEN SqueezeResult(
             Deeper(GridVariable_getitem(shp, PyTuple(ReplaceInt(idx.items)))),
             FirstInt(idx.items))
    ELSE IF Len(idx.items) > Len(shp)
    THEN \* start[j] / self.shape[j] with j past the last axis
         Raise("IndexError")
    ELSE ReadField(shp, SlicePlan(shp, idx.items))

---------------------------------------------------------------------------
(* _Grid.__getitem__                                                       *)

\* np.arange(start, stop, step) for a non-zero integer step
arange_len(a, b, s) ==
    IF s > 0
    THEN (IF b > a THEN (b - a + s - 1) \div s ELSE 0)
    ELSE (IF a > b THEN (a - b + (-s) - 1) \div (-s) ELSE 0)

arange(a, b, s) == [k \in 1..arange_len(a, b, s) |-> a + (k - 1) * s]

\* variant: the mesh laid out column-major
meshgridTransposed(col, row) ==
    [rows |-> [i \in 1..Len(col) |-> [j \in 1..Len(row) |-> row[j]]],
     cols |-> [i \in 1..Len(col) |-> [j \in 1..Len(row) |-> col[i]]]]

\* cols, rows = np.meshgrid(col, row): both have shape (len(row), len(col)),
\* rows[i][j] = row[i] and cols[i][j] = col[j].  The astype(np.int32) casts
\* are exact on every value the model holds.
meshgrid(col, row) ==
    [rows |-> [i \in 1..Len(row) |-> [j \in 1..Len(col) |-> row[i]]],
     cols |-> [i \in 1..Len(row) |-> [j \in 1..Len(col) |-> col[j]]]]

\* The forward-transform primitive, he.gdij2ll(..., rows, cols, ...): it
\* delivers the pair (lon, lat), each with the shape of the mesh; the value
\* of a cell is kept symbolic.
gdij2ll(mesh) ==
    <<[i \in 1..Len(mesh.rows) |-> [j \in 1..Len(mesh.rows[i]) |->
          <<"lon", mesh.rows[i][j], mesh.cols[i][j]>>]],
      [i \in 1..Len(mesh.rows) |-> [j \in 1..Len(mesh.rows[i]) |->
          <<"lat", mesh.rows[i][j], mesh.cols[i][j]>>]]>>

GRaise(err) ==
    [status |-> err, calls |-> <<>>, ret |-> <<>>, ndim |-> 0, depth |-> 1]

\* rows_start = 0 if rows.start is None else rows.start, and so on
OrElse(o, d) == IF IsNone(o) THEN d ELSE Val(o)

\* lines 393-396: the check that guards the transform
OutOfBounds(numrows, numcols, rows, cols) ==
    \/ OrElse(rows.start, 0) < 0
    \/ OrElse(rows.stop, numrows) > numrows
    \/ OrElse(cols.start, 0) < 0
    \/ OrElse(cols.stop, numcols) > numcols

\* lines 398-402
GridMesh(numrows, numcols, rows, cols) ==
    meshgrid(arange(OrElse(cols.start, 0), OrElse(cols.stop, numcols),
                    OrElse(cols.step, 1)),
             arange(OrElse(rows.start, 0), OrElse(rows.stop, numrows),
                    OrElse(rows.step, 1)))

\* variant: the pair handed back in the order the primitive delivers it
ReturnLonLat(out) == <<out[1], out[2]>>

\* lon, lat = self._he.gdij2ll(...); return lat, lon
ReturnLatLon(out) == <<out[2], out[1]>>

\* lines 383-408: the workhorse on a pair of slices
GridWorkhorse(shp, rows, cols) ==
    IF OutOfBounds(shp[1], shp[2], rows, cols)
    THEN GRaise("RuntimeError")
    ELSE [status |-> "ok",
          calls |-> <<GridMesh(shp[1], shp[2], rows, cols)>>,
          ret |-> ReturnLatLon(gdij2ll(GridMesh(shp[1], shp[2], rows, cols))),
          ndim |-> 2,
          depth |-> 1]

\* variant: the second component is replaced whichever holds the ellipsis
GridReplaceEllipsisSecond(shp, items) ==
    <<items[1], slice(Some(0), Some(shp[2]), None)>>

\* lines 352-357: "Remove the first ellipsis we find"
GridReplaceEllipsis(shp, items) ==
    IF is_Ellipsis(items[1])
    THEN <<slice(Some(0), Some(shp[1]), None), items[2]>>
    ELSE <<items[1], slice(Some(0), Some(shp[2]), None)>>

\* variant: one component too many is let through
TooManyLoose(items) == Len(items) > 3

\* line 346: len(index) > 2
TooMany(items) == Len(items) > 2

RECURSIVE Grid_getitem(_, _)
Grid_getitem(shp, idx) ==
    IF isinstance_int(idx)
    THEN GRaise("RuntimeError")
    ELSE IF is_Ellipsis(idx)
    THEN Deeper(Grid_getitem(shp, PyTuple(<<slice(None, None, None),
                                            slice(None, None, None)>>)))
    ELSE IF isinstance_slice(idx)
    THEN IF AllNone(idx)
         THEN Deeper(Grid_getitem(shp, PyTuple(<<idx, idx>>)))
         ELSE GRaise("RuntimeError")
    ELSE IF TooMany(idx.items)
    THEN GRaise("RuntimeError")
    ELSE IF AnyEllipsis(idx.items)
    THEN IF is_Ellipsis(idx.items[1]) /\ Len(idx.items) < 2
         THEN \* index[1] of a one-element tuple
              GRaise("IndexError")
         ELSE Deeper(Grid_getitem(shp, PyTuple(GridReplaceEllipsis(shp, idx.items))))
    ELSE IF AnyInt(idx.items)
    THEN \* lst = list(pargs): pargs is not defined
         GRaise("NameError")
    ELSE IF Len(idx.items) < 2
    THEN \* index[0] / index[1] of a tuple shorter than two
         GRaise("IndexError")
    ELSE GridWorkhorse(shp, idx.items[1], idx.items[2])

---------------------------------------------------------------------------
(* _Grid.__str__: the projection lines that depend on projparms[0] and     *)
(* projparms[1].  Real numbers are held in fixed point: the integer n      *)
(* stands for n / Scale, so 6378.2064 is 63782064.                         *)

Scale == 10 * 1000

\* semi_major = 6378.2064, Clarke 1866
Clarke1866 == 63782064
\* sphere = 6370.997
DefaultSphere == 63709970

\* x / 1000
Div1000(x) == x \div 1000

\* a * b, the product taken in two parts to stay within 32 bits
MulFP(a, b) == (a \div Scale) * b + ((a % Scale) * b) \div Scale

\* np.sqrt(x) for 0 <= x <= 1, rounded down to fixed point
SqrtFP(x) == CHOOSE r \in 0..Scale : r * r <= x * Scale /\ (r + 1) * (r + 1) > x * Scale

\* lines 264-268
SemiMajor(parms) ==
    IF parms[1] = 0 THEN Clarke1866 ELSE Div1000(parms[1])

\* lines 269-277
SemiMinor(parms) ==
    IF parms[2] = 0 THEN SemiMajor(parms)
    ELSE IF parms[2] < 0
    THEN MulFP(SemiMajor(parms), SqrtFP(Scale - MulFP(parms[2], parms[2])))
    ELSE parms[2]

\* _projection_semi_major_semi_minor
projection_semi_major_semi_minor(parms) ==
    <<[label |-> "Semi-major axis(km)", value |-> SemiMajor(parms)],
      [label |-> "Semi-minor axis(km)", value |-> SemiMinor(parms)]>>

\* _projection_sphere
projection_sphere(parms) ==
    <<[label |-> "Radius of reference sphere(km)",
       value |-> IF Div1000(parms[1]) = 0 THEN DefaultSphere ELSE Div1000(parms[1])]>>

\* the projection dispatch of __str__, lines 184-211
Grid_str(code, parms) ==
    IF code \in {3, 6} THEN projection_semi_major_semi_minor(parms)
    ELSE IF code \in {11, 16} THEN projection_sphere(parms)
    ELSE <<>>

---------------------------------------------------------------------------
(* The inputs.                                                             *)

Opt(S) == {None} \cup {Some(v) : v \in S}

FullSlice == slice(None, None, None)

\* field shapes: axis lengths rising by one per axis, or all equal
FieldShapes ==
    UNION {{[j \in 1..n |-> d + j - 1], [j \in 1..n |-> d]} : 
              <<n, d>> \in (1..MaxRank) \X (1..MaxDim)}

\* grid shapes: (numrows, numcols)
GridShapes == [1..2 -> 1..MaxDim]

Nums == -1..(MaxIdx + 1)
Steps == {-1, 1, 2}

\* every slice over the small numbers, the step never zero
BigSlices == {slice(a, b, c) : <<a, b, c>> \in Opt(Nums) \X Opt(Nums) \X Opt(Steps)}

\* the slices that cover an axis of length n completely
CoverSlices(n) ==
    {slice(a, b, c) : <<a, b, c>> \in Opt({0}) \X Opt({n}) \X Opt({1})}

MixSlices == {FullSlice, slice(Some(0), Some(1), None), slice(Some(1), None, Some(2))}

MixComps == {PyInt(0), PyInt(1), Ellipsis} \cup MixSlices

SeqsUpTo(S, n) == UNION {[1..k -> S] : k \in 0..n}

\* tuples of at most MaxRank components mixing integers, ellipses and slices
MixTuples == {PyTuple(t) : t \in SeqsUpTo(MixComps, MaxRank)}

\* one unrestricted slice, every other axis full or strided
PlainSlices == {FullSlice, slice(Some(1), None, Some(2))}

RECURSIVE OneBig(_)
OneBig(n) ==
    IF n = 0 THEN {}
    ELSE {<<b>> \o t : <<b, t>> \in BigSlices \X [1..(n - 1) -> PlainSlices]}
         \cup {<<m>> \o t : <<m, t>> \in PlainSlices \X OneBig(n - 1)}

SliceTuples(n) == {PyTuple(t) : t \in OneBig(n)}

\* tuples of covering slices, one per axis of shp
RECURSIVE CoverSeqs(_, _)
CoverSeqs(shp, n) ==
    IF n = 0 THEN {<<>>}
    ELSE {Append(t, c) : <<t, c>> \in CoverSeqs(shp, n - 1) \X CoverSlices(shp[n])}

CoverTuples(shp) == {PyTuple(t) : t \in CoverSeqs(shp, Len(shp))}

Scalars == {PyInt(i) : i \in Nums} \cup {Ellipsis} \cup BigSlices

FieldIndexes(shp) ==
    Scalars \cup MixTuples \cup SliceTuples(Len(shp)) \cup CoverTuples(shp)

GridIndexes(shp) ==
    Scalars \cup MixTuples \cup SliceTuples(2) \cup CoverTuples(shp)

\* projection parameters in fixed point: whole and half kilometres given in
\* metres, and eccentricities given as negative tenths
MaxMetres == 4
MaxEcc == 9
Slot0 == {0} \cup {500 * m * Scale : m \in 1..MaxMetres}
Slot1 == Slot0 \cup {-(e * (Scale \div 10)) : e \in 1..MaxEcc}
ProjCodes == {0, 1, 3, 6, 11, 16}

NoResult == [status |-> "none"]

---------------------------------------------------------------------------
(* The state machine: Init draws one request, the action serves it.        *)

\* the grids of the file, in the order of gdinqgrid
Grids == 1..MaxGrids

\* no frame is being followed
NormIdle ==
    /\ cur = Ellipsis
    /\ frames = 0

\* no GridFile has been opened
LifeIdle ==
    /\ gdf = "none"
    /\ fileRefs = 0
    /\ gridRefs = [g \in Grids |-> 0]
    /\ inDict = [g \in Grids |-> FALSE]
    /\ scope = "out"
    /\ hecalls = <<>>

Init ==
    /\ pc = "call"
    /\ result = NoResult
    /\ NormIdle
    /\ LifeIdle
    /\ hformat = "he4"
    /\ attachFails = {}
    /\ \/ /\ op = "field"
          /\ shape \in FieldShapes
          /\ index \in FieldIndexes(shape)
          /\ projcode = 0
          /\ projparms = <<0, 0>>
       \/ /\ op = "grid"
          /\ shape \in GridShapes
          /\ index \in GridIndexes(shape)
          /\ projcode = 0
          /\ projparms = <<0, 0>>
       \/ /\ op = "str"
          /\ shape = <<1, 1>>
          /\ index = Ellipsis
          /\ projcode \in ProjCodes
          /\ projparms \in Slot0 \X Slot1

\* field[index]
FieldGetItem ==
    /\ op = "field"
    /\ pc = "call"
    /\ result' = GridVariable_getitem(shape, index)
    /\ pc' = "done"
    /\ UNCHANGED <<op, shape, index, projcode, projparms, normVars, lifeVars>>

\* grid[index]
GridGetItem ==
    /\ op = "grid"
    /\ pc = "call"
    /\ result' = Grid_getitem(shape, index)
    /\ pc' = "done"
    /\ UNCHANGED <<op, shape, index, projcode, projparms, normVars, lifeVars>>

\* str(grid)
GridStr ==
    /\ op = "str"
    /\ pc = "call"
    /\ result' = [status |-> "ok", lines |-> Grid_str(projcode, projparms)]
    /\ pc' = "done"
    /\ UNCHANGED <<op, shape, index, projcode, projparms, normVars, lifeVars>>

Next == FieldGetItem \/ GridGetItem \/ GridStr

Spec == Init /\ [][Next]_vars

---------------------------------------------------------------------------
(* Helpers of the properties.                                              *)

Done(o) == op = o /\ pc = "done"

NumAxes == Len(shape)

\* the subscripts that cover the whole field
FullCoverage(shp, idx) ==
    \/ idx = FullSlice
    \/ idx = Ellipsis
    \/ /\ isinstance_tuple(idx)
       /\ Len(idx.items) = Len(shp)
       /\ \A j \in 1..Len(shp) : idx.items[j] \in CoverSlices(shp[j])

\* the array a read of the whole field returns
FullArray(shp) ==
    [axes |-> [j \in 1..Len(shp) |->
                 [src |-> j - 1, at |-> [k \in 1..shp[j] |-> k - 1]]],
     pinned |-> {}]

IntAxes(items) == {a \in 0..(Len(items) - 1) : isinstance_int(items[a + 1])}
SliceAxes(items) == {a \in 0..(Len(items) - 1) : isinstance_slice(items[a + 1])}
EllipsisAxes(items) == {a \in 0..(Len(items) - 1) : is_Ellipsis(items[a + 1])}

---------------------------------------------------------------------------
(* The properties.                                                         *)

\* C1: identity law of the field reader.  For every field shape of one or
\* more axes, each full-coverage subscript ([:], [...], or one covering
\* slice per axis) makes exactly one call of the read primitive, with start
\* 0 and stride 1 on every axis and extent equal to the shape, and no axis
\* is squeezed from the result.
C1_IdentityLaw ==
    (Done("field") /\ FullCoverage(shape, index)) =>
        /\ result.status = "ok"
        /\ result.calls = <<[start |-> [j \in 1..NumAxes |-> 0],
                             stride |-> [j \in 1..NumAxes |-> 1],
                             edge |-> shape]>>
        /\ result.data = FullArray(shape)

\* C2: a bare integer i on an N-axis field targets axis 0.  The read
\* primitive is called once with start (i, 0, ..., 0), stride all 1 and
\* extent (1, S[1], ..., S[N-1]); when the read succeeds, axis 0 is removed
\* and the result is row i of the full read, with N - 1 axes.
C2_BareIntegerIsRow ==
    (Done("field") /\ isinstance_int(index)) =>
        /\ result.calls =
              <<[start |-> [j \in 1..NumAxes |-> IF j = 1 THEN index.v ELSE 0],
                 stride |-> [j \in 1..NumAxes |-> 1],
                 edge |-> [j \in 1..NumAxes |-> IF j = 1 THEN 1 ELSE shape[j]]]>>
        /\ result.status \in {"ok", "ReadError"}
        /\ result.status = "ok" =>
              /\ result.data.axes = Tail(FullArray(shape).axes)
              /\ result.data.pinned = {<<0, index.v>>}

\* the tuple with its single ellipsis replaced by n full slices
ExpandOnce(items, n) ==
    SubSeq(items, 1, FirstEllipsis(items))
        \o [k \in 1..n |-> FullSlice]
        \o SubSeq(items, FirstEllipsis(items) + 2, Len(items))

\* C3: on a field of N >= 2 axes, a tuple with exactly one ellipsis and m
\* other components (m <= N) gives the calls and the result of the tuple in
\* which the ellipsis is replaced by N - m full slices at its position.
C3_EllipsisCoversUnusedAxes ==
    (/\ Done("field")
     /\ NumAxes >= 2
     /\ isinstance_tuple(index)
     /\ Cardinality(EllipsisAxes(index.items)) = 1
     /\ Len(index.items) - 1 <= NumAxes) =>
        LET want == GridVariable_getitem(shape,
                        PyTuple(ExpandOnce(index.items,
                                           NumAxes - (Len(index.items) - 1))))
        IN /\ result.status = want.status
           /\ result.calls = want.calls
           /\ result.data = want.data

\* C4: on a field of N axes, an N-tuple mixing k >= 1 bare integers with
\* slices makes exactly one call of the read primitive, in which every
\* integer i at axis a is read as start[a] = i, stride[a] = 1, extent[a] = 1;
\* when the read succeeds the axes removed are exactly the axes of the
\* integers, each pinned at its integer, and the N - k remaining axes keep
\* their relative order.
C4_IntegersSqueezeTheirAxes ==
    (/\ Done("field")
     /\ isinstance_tuple(index)
     /\ Len(index.items) = NumAxes
     /\ IntAxes(index.items) # {}
     /\ SliceAxes(index.items) # {}
     /\ EllipsisAxes(index.items) = {}) =>
        /\ Len(result.calls) = 1
        /\ \A a \in IntAxes(index.items) :
              /\ result.calls[1].start[a + 1] = index.items[a + 1].v
              /\ result.calls[1].stride[a + 1] = 1
              /\ result.calls[1].edge[a + 1] = 1
        /\ result.status \in {"ok", "ReadError"}
        /\ result.status = "ok" =>
              /\ result.data.pinned =
                    {<<a, index.items[a + 1].v>> : a \in IntAxes(index.items)}
              /\ Len(result.data.axes) = NumAxes - Cardinality(IntAxes(index.items))
              /\ {result.data.axes[k].src : k \in 1..Len(result.data.axes)}
                    = SliceAxes(index.items)
              /\ \A k \in 1..(Len(result.data.axes) - 1) :
                    result.data.axes[k].src < result.data.axes[k + 1].src

\* C4 witness: a three-axis read with integers on the first and the last
\* axis has succeeded and left the middle axis.
C4_Witness ==
    /\ Done("field")
    /\ NumAxes = 3
    /\ isinstance_tuple(index)
    /\ Len(index.items) = 3
    /\ IntAxes(index.items) = {0, 2}
    /\ SliceAxes(index.items) = {1}
    /\ result.status = "ok"
    /\ Len(result.data.axes) = 1
    /\ result.data.axes[1].src = 1

\* the subscripts C5 calls malformed
Malformed ==
    \/ /\ op \in {"field", "grid"}
       /\ isinstance_slice(index)
       /\ ~AllNone(index)
    \/ /\ op = "grid"
       /\ \/ isinstance_int(index)
          \/ isinstance_tuple(index) /\ Len(index.items) > 2

CellsInGrid(mesh, numrows, numcols) ==
    \A i \in 1..Len(mesh.rows) : \A j \in 1..Len(mesh.rows[i]) :
        /\ 0 <= mesh.rows[i][j] /\ mesh.rows[i][j] < numrows
        /\ 0 <= mesh.cols[i][j] /\ mesh.cols[i][j] < numcols

TwoSlices(idx) ==
    /\ isinstance_tuple(idx)
    /\ Len(idx.items) = 2
    /\ SliceAxes(idx.items) = {0, 1}

\* C6: for every two-slice subscript on a grid of shape (R, C), with any
\* start, stop and non-zero step, either an out-of-bounds error is raised and
\* the transform primitive is not called, or every (row, col) address of the
\* mesh handed to the transform primitive has 0 <= row < R and 0 <= col < C.
C6_MeshStaysInsideGrid ==
    (Done("grid") /\ TwoSlices(index)) =>
        \/ result.status = "RuntimeError" /\ result.calls = <<>>
        \/ \A k \in 1..Len(result.calls) :
              CellsInGrid(result.calls[k], shape[1], shape[2])

\* C7: on a grid, a tuple subscript holding bare integers (alone, or mixed
\* with slices or an ellipsis) returns latitude and longitude arrays with
\* one axis per non-integer component.
C7_GridIntegersSqueeze ==
    (Done("grid") /\ isinstance_tuple(index) /\ IntAxes(index.items) # {}) =>
        /\ result.status = "ok"
        /\ result.ndim = Len(index.items) - Cardinality(IntAxes(index.items))

\* the shape of a two-axis array
IsMatrix(m, numrows, numcols) ==
    /\ Len(m) = numrows
    /\ \A i \in 1..numrows : Len(m[i]) = numcols

C9_ReturnsLonLat ==
    (Done("grid") /\ result.status = "ok") =>
        result.ret = gdij2ll(result.calls[1])

\* C9 as amended: the grid subscript returns the pair swapped with respect
\* to the primitive: its first element is the latitude array (the second
\* array the primitive delivers) and its second the longitude array (the
\* first array the primitive delivers).
C9_ReturnsLatLon ==
    (Done("grid") /\ result.status = "ok") =>
        /\ result.ret[1] = gdij2ll(result.calls[1])[2]
        /\ result.ret[2] = gdij2ll(result.calls[1])[1]
        /\ \A i \in 1..Len(result.calls[1].rows) :
              \A j \in 1..Len(result.calls[1].rows[i]) :
                 /\ result.ret[1][i][j][1] = "lat"
                 /\ result.ret[2][i][j][1] = "lon"

\* C9 witness: a grid subscript has returned arrays of at least one cell.
C9_Witness ==
    /\ Done("grid")
    /\ result.status = "ok"
    /\ Len(result.ret[1]) >= 1
    /\ Len(result.ret[1][1]) >= 1
    /\ result.ret[1][1][1][1] = "lat"

\* C10: for projection codes 3 and 6 and every parameter pair (slot0,
\* slot1), semi-major is 6378.2064 when slot0 = 0 and slot0 / 1000
\* otherwise; semi-minor is semi-major when slot1 = 0, is
\* semi-major * sqrt(1 - slot1^2) when slot1 < 0, and is slot1 / 1000 when
\* slot1 > 0.
C10_SemiMajorSemiMinor ==
    (Done("str") /\ projcode \in {3, 6}) =>
        LET major == IF projparms[1] = 0 THEN 63782064 ELSE projparms[1] \div 1000
        IN /\ result.lines[1].value = major
           /\ result.lines[2].value =
                 IF projparms[2] = 0 THEN major
                 ELSE IF projparms[2] < 0
                 THEN MulFP(major, SqrtFP(Scale - MulFP(projparms[2], projparms[2])))
                 ELSE projparms[2] \div 1000

\* the invariant of an index plan on a field of shape shp
PlanInvariant(shp, plan) ==
    \A j \in 1..Len(shp) :
        /\ 0 <= plan.start[j]
        /\ plan.stride[j] >= 1
        /\ plan.start[j] + plan.stride[j] * (plan.edge[j] - 1) < shp[j]

AllSlices(idx) ==
    /\ isinstance_tuple(idx)
    /\ SliceAxes(idx.items) = 0..(Len(idx.items) - 1)

\* C12: for every tuple-of-slices subscript on a field (any start and stop,
\* any non-zero step), the read primitive failing only when
\* start + stride * (extent - 1) reaches the shape on some axis: either the
\* read ends in an out-of-bounds error, or the plan handed to the read
\* primitive has 0 <= start[i], stride[i] >= 1 and
\* start[i] + stride[i] * (extent[i] - 1) < Shape[i] on every axis i.
C12_PlanWithinShape ==
    (Done("field") /\ AllSlices(index)) =>
        \/ result.status = "ReadError"
        \/ \A k \in 1..Len(result.calls) : PlanInvariant(shape, result.calls[k])

---------------------------------------------------------------------------
(* The life of a GridFile.  Objects are finalized by reference counting:   *)
(* __del__ runs when the last reference to the object goes.  hecalls lists *)
(* the handle primitives that were called and did not raise.               *)

HeCall(name, g) == [call |-> name, grid |-> g]

\* the grids whose gdattach is reached and succeeds in GridFile.__init__:
\* the loop of lines 426-427 stops at the first gdattach that raises
AttachedAtOpen(fails) ==
    IF fails = {} THEN Grids ELSE {g \in Grids : g < Min(fails)}

RECURSIVE AttachCalls(_, _)
AttachCalls(fails, g) ==
    IF g \notin AttachedAtOpen(fails) THEN <<>>
    ELSE <<HeCall("gdattach", g)>> \o AttachCalls(fails, g + 1)

\* _Grid.__del__: self._he.gddetach(self.gridid)
Grid_del(g) == <<HeCall("gddetach", g)>>

\* the loop of GridFile.__del__: the entry of the dictionary is cleared and
\* the local name deleted, which finalizes the grid unless the program
\* still holds it
RECURSIVE DelGrids(_, _, _)
DelGrids(refs, dict, g) ==
    IF g \notin Grids THEN <<>>
    ELSE (IF dict[g] /\ refs[g] = 0 THEN Grid_del(g) ELSE <<>>)
         \o DelGrids(refs, dict, g + 1)

\* GridFile.__del__
GridFile_del(refs, dict) == DelGrids(refs, dict, 1) \o <<HeCall("gdclose", 0)>>

\* the GridFile object is finalized
Finalized(state) ==
    /\ gdf' = state
    /\ hecalls' = hecalls \o GridFile_del(gridRefs, inDict)
    /\ inDict' = [g \in Grids |-> FALSE]

\* gdf = GridFile(filename)
Open ==
    /\ op = "life"
    /\ gdf = "none"
    /\ IF hformat = "neither"
       THEN \* he4.gdopen and he5.gdopen both raise
            /\ gdf' = "failed"
            /\ UNCHANGED <<fileRefs, inDict, hecalls>>
       ELSE /\ hecalls' = <<HeCall("gdopen", 0)>> \o AttachCalls(attachFails, 1)
            /\ inDict' = [g \in Grids |-> g \in AttachedAtOpen(attachFails)]
            /\ IF attachFails = {}
               THEN gdf' = "alive" /\ fileRefs' = 1
               ELSE \* gdattach raises out of _Grid.__init__ and GridFile.__init__
                    gdf' = "failed" /\ fileRefs' = 0
    /\ UNCHANGED <<op, shape, index, projcode, projparms, pc, result, normVars,
                   hformat, attachFails, gridRefs, scope>>

\* the object whose constructor raised is finalized once the exception
\* that holds its frame is gone
FinalizePartial ==
    /\ gdf = "failed"
    /\ IF hformat = "neither"
       THEN \* self.grids does not exist: __del__ raises before gdclose
            gdf' = "discarded" /\ UNCHANGED <<inDict, hecalls>>
       ELSE Finalized("discarded")
    /\ UNCHANGED <<op, shape, index, projcode, projparms, pc, result, normVars,
                   hformat, attachFails, fileRefs, gridRefs, scope>>

\* other = gdf
TakeFile ==
    /\ gdf = "alive"
    /\ fileRefs \in 1..(MaxRefs - 1)
    /\ fileRefs' = fileRefs + 1
    /\ UNCHANGED <<op, shape, index, projcode, projparms, pc, result, normVars,
                   hformat, attachFails, gdf, gridRefs, inDict, scope, hecalls>>

\* del gdf
DropFile ==
    /\ gdf = "alive"
    /\ fileRefs >= 1
    /\ fileRefs' = fileRefs - 1
    /\ IF fileRefs = 1 /\ scope # "in"
       THEN Finalized("dead")
       ELSE UNCHANGED <<gdf, inDict, hecalls>>
    /\ UNCHANGED <<op, shape, index, projcode, projparms, pc, result, normVars,
                   hformat, attachFails, gridRefs, scope>>

\* grid = gdf.grids[gridname]
TakeGrid(g) ==
    /\ gdf = "alive"
    /\ fileRefs >= 1
    /\ inDict[g]
    /\ gridRefs[g] < MaxRefs
    /\ gridRefs' = [gridRefs EXCEPT ![g] = @ + 1]
    /\ UNCHANGED <<op, shape, index, projcode, projparms, pc, result, normVars,
                   hformat, attachFails, gdf, fileRefs, inDict, scope, hecalls>>

\* del grid
DropGrid(g) ==
    /\ gridRefs[g] >= 1
    /\ gridRefs' = [gridRefs EXCEPT ![g] = @ - 1]
    /\ hecalls' = IF gridRefs[g] = 1 /\ ~inDict[g]
                  THEN hecalls \o Grid_del(g)
                  ELSE hecalls
    /\ UNCHANGED <<op, shape, index, projcode, projparms, pc, result, normVars,
                   hformat, attachFails, gdf, fileRefs, inDict, scope>>

\* with gdf: the statement holds the object until the block is left
EnterScope ==
    /\ gdf = "alive"
    /\ fileRefs >= 1
    /\ scope = "out"
    /\ scope' = "in"
    /\ UNCHANGED <<op, shape, index, projcode, projparms, pc, result, normVars,
                   hformat, attachFails, gdf, fileRefs, gridRefs, inDict, hecalls>>

\* the block is left, normally or by an exception: __exit__ does nothing and
\* the statement lets go of the object
ExitScope(raised) ==
    /\ scope = "in"
    /\ scope' = IF raised THEN "left_raised" ELSE "left"
    /\ IF fileRefs = 0
       THEN Finalized("dead")
       ELSE UNCHANGED <<gdf, inDict, hecalls>>
    /\ UNCHANGED <<op, shape, index, projcode, projparms, pc, result, normVars,
                   hformat, attachFails, fileRefs, gridRefs>>

InitLife ==
    /\ op = "life"
    /\ shape = <<1, 1>>
    /\ index = Ellipsis
    /\ projcode = 0
    /\ projparms = <<0, 0>>
    /\ pc = "call"
    /\ result = NoResult
    /\ NormIdle
    /\ LifeIdle
    /\ hformat \in {"he4", "he5", "neither"}
    /\ attachFails \in SUBSET Grids

NextLife ==
    \/ Open
    \/ FinalizePartial
    \/ TakeFile
    \/ DropFile
    \/ \E g \in Grids : TakeGrid(g)
    \/ \E g \in Grids : DropGrid(g)
    \/ EnterScope
    \/ \E raised \in BOOLEAN : ExitScope(raised)

SpecLife == InitLife /\ [][NextLife]_vars

Count(name, g) ==
    Cardinality({k \in 1..Len(hecalls) : hecalls[k] = HeCall(name, g)})

FileOpen == Count("gdopen", 0) = 1 /\ Count("gdclose", 0) = 0

\* C11: if attaching one grid fails while the file is opened, the file
\* object is still constructed, the grids that attached remain accessible
\* through it, and the file handle stays open for them.
C11_AttachFailureConfined ==
    (gdf # "none" /\ hformat # "neither" /\ attachFails # {}) =>
        /\ gdf \in {"alive", "dead"}
        /\ gdf = "alive" =>
              /\ FileOpen
              /\ \A g \in Grids \ attachFails : inDict[g]

\* every object is gone
AllDestroyed ==
    /\ gdf \in {"dead", "discarded"}
    /\ \A g \in Grids : gridRefs[g] = 0

\* C13: whatever the order in which the file and grid objects are obtained,
\* dropped and destroyed, no grid handle is detached twice and the file
\* handle is not closed twice; once every object is gone each attached
\* handle has been detached and the file handle closed; and no grid handle
\* is detached after the file handle has been closed.
C13_ReleasedOnceBeforeClose ==
    /\ \A g \in Grids : Count("gddetach", g) <= Count("gdattach", g)
    /\ Count("gdclose", 0) <= Count("gdopen", 0)
    /\ AllDestroyed =>
          /\ \A g \in Grids : Count("gddetach", g) = Count("gdattach", g)
          /\ Count("gdclose", 0) = Count("gdopen", 0)
    /\ \A i, j \in 1..Len(hecalls) :
          (i < j /\ hecalls[i].call = "gdclose") => hecalls[j].call # "gddetach"

\* C14: once the scope of a with statement on a grid file is left, normally
\* or by an exception, the file handle has been closed and every grid
\* handle attached at open time has been detached.
C14_ScopeExitReleases ==
    (scope \in {"left", "left_raised"}) =>
        /\ Count("gdclose", 0) = 1
        /\ \A g \in Grids : Count("gddetach", g) = Count("gdattach", g)

---------------------------------------------------------------------------
(* Subscript normalisation, call by call.  cur is the subscript of the     *)
(* innermost call of __getitem__ and frames the number of calls entered.   *)
(* A call either re-enters __getitem__ with a rewritten subscript or ends  *)
(* the recursion, after which the callers finish and the result is the     *)
(* result of the outermost call.                                           *)

\* the deepest call stack the model follows
MaxFrames == MaxRank + 3

\* _GridVariable.__getitem__: the subscript of the recursive call this call
\* makes, <<>> if it makes none
FieldReentry(shp, idx) ==
    IF Len(shp) < 2 THEN <<>>
    ELSE IF isinstance_int(idx) THEN <<>>
    ELSE IF is_Ellipsis(idx) THEN <<slice(None, None, None)>>
    ELSE IF isinstance_slice(idx) THEN <<>>
    ELSE IF AnyEllipsis(idx.items)
    THEN IF FirstEllipsis(idx.items) >= Len(shp)
         THEN <<>>
         ELSE <<PyTuple(ReplaceEllipsis(shp, idx.items))>>
    ELSE IF AnyInt(idx.items)
    THEN <<PyTuple(ReplaceInt(idx.items))>>
    ELSE <<>>

\* _Grid.__getitem__: the subscript of the recursive call this call makes,
\* <<>> if it makes none
GridReentry(shp, idx) ==
    IF isinstance_int(idx) THEN <<>>
    ELSE IF is_Ellipsis(idx)
    THEN <<PyTuple(<<slice(None, None, None), slice(None, None, None)>>)>>
    ELSE IF isinstance_slice(idx)
    THEN IF AllNone(idx) THEN <<PyTuple(<<idx, idx>>)>> ELSE <<>>
    ELSE IF TooMany(idx.items) THEN <<>>
    ELSE IF AnyEllipsis(idx.items)
    THEN IF is_Ellipsis(idx.items[1]) /\ Len(idx.items) < 2
         THEN <<>>
         ELSE <<PyTuple(GridReplaceEllipsis(shp, idx.items))>>
    ELSE <<>>

Reentry(o, shp, idx) ==
    IF o = "field" THEN FieldReentry(shp, idx) ELSE GridReentry(shp, idx)

\* self.__getitem__(newindex) inside _GridVariable.__getitem__
FieldReenter ==
    /\ op = "field"
    /\ pc = "norm"
    /\ frames < MaxFrames
    /\ FieldReentry(shape, cur) # <<>>
    /\ cur' = FieldReentry(shape, cur)[1]
    /\ frames' = frames + 1
    /\ UNCHANGED <<op, shape, index, projcode, projparms, pc, result, lifeVars>>

\* the innermost call of _GridVariable.__getitem__ reads or raises, and the
\* calls above it squeeze and return
FieldReturn ==
    /\ op = "field"
    /\ pc = "norm"
    /\ FieldReentry(shape, cur) = <<>>
    /\ pc' = "done"
    /\ result' = GridVariable_getitem(shape, index)
    /\ UNCHANGED <<op, shape, index, projcode, projparms, normVars, lifeVars>>

\* self.__getitem__(newindex) inside _Grid.__getitem__
GridReenter ==
    /\ op = "grid"
    /\ pc = "norm"
    /\ frames < MaxFrames
    /\ GridReentry(shape, cur) # <<>>
    /\ cur' = GridReentry(shape, cur)[1]
    /\ frames' = frames + 1
    /\ UNCHANGED <<op, shape, index, projcode, projparms, pc, result, lifeVars>>

\* the innermost call of _Grid.__getitem__ transforms or raises, and the
\* calls above it return
GridReturn ==
    /\ op = "grid"
    /\ pc = "norm"
    /\ GridReentry(shape, cur) = <<>>
    /\ pc' = "done"
    /\ result' = Grid_getitem(shape, index)
    /\ UNCHANGED <<op, shape, index, projcode, projparms, normVars, lifeVars>>

NormIndexes == Scalars \cup MixTuples

InitNorm ==
    /\ pc = "norm"
    /\ result = NoResult
    /\ projcode = 0
    /\ projparms = <<0, 0>>
    /\ LifeIdle
    /\ hformat = "he4"
    /\ attachFails = {}
    /\ \/ op = "field" /\ shape \in FieldShapes
       \/ op = "grid" /\ shape \in GridShapes
    /\ index \in NormIndexes
    /\ cur = index
    /\ frames = 1

NextNorm == FieldReenter \/ FieldReturn \/ GridReenter \/ GridReturn

SpecNorm == InitNorm /\ [][NextNorm]_vars

\* the number of ellipsis markers plus bare integers of a subscript
Measure(idx) ==
    IF isinstance_tuple(idx)
    THEN Cardinality(EllipsisAxes(idx.items) \cup IntAxes(idx.items))
    ELSE IF is_Ellipsis(idx) \/ isinstance_int(idx) THEN 1 ELSE 0

TupleLength(idx) == IF isinstance_tuple(idx) THEN Len(idx.items) ELSE 0

\* a re-entry lowers the measure, or turns a lone ellipsis or a bare full
\* slice into a subscript that is handled without a further re-entry
ReentryDecreases ==
    frames' = frames + 1 =>
        \/ Measure(cur') < Measure(cur)
        \/ /\ is_Ellipsis(cur) \/ isinstance_slice(cur)
           /\ Reentry(op, shape, cur') = <<>>

\* the stack stays within the tuple length plus two, a pending re-entry is
\* never cut off, and a finished call has called the primitive or raised
DepthBounded ==
    /\ frames <= TupleLength(index) + 2
    /\ (pc = "norm" /\ Reentry(op, shape, cur) # <<>>) => frames < MaxFrames
    /\ pc = "done" =>
          /\ result.depth = frames
          /\ result.status # "none"
          /\ result.status = "ok" => Len(result.calls) >= 1

\* C15: subscript normalisation terminates on the field path and the grid
\* path: every recursive re-entry strictly lowers the number of ellipsis
\* markers plus bare integers (or replaces a lone ellipsis or bare full
\* slice by a subscript handled without further recursion), the depth is at
\* most the tuple length plus two, and every call ends in a primitive call
\* or an error.
C15_NormalizationTerminates == []DepthBounded /\ [][ReentryDecreases]_vars

\* a three-component subscript that needs three re-entries before the read
C15_Witness ==
    /\ op = "field"
    /\ pc = "done"
    /\ TupleLength(index) = 3
    /\ Measure(index) = 3
    /\ frames = 4
    /\ Len(result.calls) = 1

============================================================================
